---- MODULE Spec2Model ----
(***************************************************************************)
(* Model of wordpress-go-proxy: the WordPress REST client                  *)
(* (internal/api/wordpress.go), the page handler                           *)
(* (internal/handlers/page.go) and the view models                         *)
(* (pkg/models/wordpress.go).                                              *)
(*                                                                         *)
(* Go strings are modelled as sequences of one-character strings, so that  *)
(* the string functions the code calls (TrimSuffix, LastIndex, Split,      *)
(* Replace, ...) are computed the way the Go library computes them.        *)
(***************************************************************************)
EXTENDS Integers, Sequences, FiniteSets, TLC

\* ------------------------------------------------------------------------
\* Bounds of the model
\* ------------------------------------------------------------------------

\* Longest path enumerated by the path-resolution specification.
MaxPathLen == 5

\* Number of inbound page requests the server handles in one behaviour.
MaxRequests == 2

\* Most items in a menu item list handed to NewMenuData.
MaxItems == 3

\* Most pieces a menu item URL is put together from.
MaxUrlPieces == 3

\* ------------------------------------------------------------------------
\* Go's strings package, on sequences of characters
\* ------------------------------------------------------------------------

\* The sequences over alphabet S of length at most n.
SeqsUpTo(S, n) == UNION {[1..k -> S] : k \in 0..n}

\* s[i:j] with Go's 0-based, half-open indices.
Slice(s, i, j) == SubSeq(s, i + 1, j)

HasPrefix(s, prefix) ==
    /\ Len(s) >= Len(prefix)
    /\ Slice(s, 0, Len(prefix)) = prefix

HasSuffix(s, suffix) ==
    /\ Len(s) >= Len(suffix)
    /\ Slice(s, Len(s) - Len(suffix), Len(s)) = suffix

\* strings.TrimSuffix: s without the trailing suffix, once; s itself when s
\* does not end with it.
TrimSuffix(s, suffix) ==
    IF HasSuffix(s, suffix) THEN Slice(s, 0, Len(s) - Len(suffix)) ELSE s

\* The 0-based positions at which substr occurs in s.
Occurrences(s, substr) ==
    {i \in 0..(Len(s) - Len(substr)) : Slice(s, i, i + Len(substr)) = substr}

\* strings.Index: the first occurrence, -1 when there is none.
Index(s, substr) ==
    IF Occurrences(s, substr) = {} THEN -1
    ELSE CHOOSE i \in Occurrences(s, substr) :
            \A j \in Occurrences(s, substr) : i <= j

\* strings.LastIndex: the last occurrence, -1 when there is none.
LastIndex(s, substr) ==
    IF Occurrences(s, substr) = {} THEN -1
    ELSE CHOOSE i \in Occurrences(s, substr) :
            \A j \in Occurrences(s, substr) : i >= j

Contains(s, substr) == Index(s, substr) >= 0

\* strings.ContainsAny: some character of s is in chars.
ContainsAny(s, chars) == \E i \in 1..Len(s) : s[i] \in chars

\* strings.Split with a non-empty separator: the pieces between the
\* occurrences of sep; a string without sep is its own single piece.
RECURSIVE Split(_, _)
Split(s, sep) ==
    IF Index(s, sep) < 0 THEN <<s>>
    ELSE <<Slice(s, 0, Index(s, sep))>>
            \o Split(Slice(s, Index(s, sep) + Len(sep), Len(s)), sep)

\* strings.Replace(s, old, new, n) for n >= 0 and non-empty old: the first n
\* non-overlapping occurrences of old replaced, scanning from the left.
RECURSIVE ReplaceN(_, _, _, _)
ReplaceN(s, old, new, n) ==
    IF n = 0 \/ Index(s, old) < 0 THEN s
    ELSE Slice(s, 0, Index(s, old)) \o new
            \o ReplaceN(Slice(s, Index(s, old) + Len(old), Len(s)), old, new, n - 1)

\* strings.Replace with an empty old string inserts new before each of the
\* first n characters (and at the end when n exceeds the length).
RECURSIVE InsertN(_, _, _)
InsertN(s, new, n) ==
    IF n = 0 THEN s
    ELSE IF s = <<>> THEN new
    ELSE new \o <<Head(s)>> \o InsertN(Tail(s), new, n - 1)

Replace(s, old, new, n) ==
    IF old = <<>> THEN InsertN(s, new, n) ELSE ReplaceN(s, old, new, n)

\* strings.ReplaceAll(s, old, new) = strings.Replace(s, old, new, -1).
ReplaceAll(s, old, new) == Replace(s, old, new, Len(s) + 1)

\* A Go string literal as a sequence of characters is written out in full;
\* these are the literals the code compares against or emits.
SLASH == <<"/">>
EMPTY == <<>>
FR == <<"f", "r">>
EN == <<"e", "n">>
HOME == <<"h", "o", "m", "e">>
HOME_FR == <<"h", "o", "m", "e", "-", "f", "r">>

\* ------------------------------------------------------------------------
\* Configuration (environment values read by config.Load)
\* ------------------------------------------------------------------------

\* WORDPRESS_URL: the base origin of the upstream CMS.
BaseURL == <<"/", "/", "w", "p">>

\* WORDPRESS_MENU_ID_EN and WORDPRESS_MENU_ID_FR.
MenuIdEn == "123"
MenuIdFr == "456"

\* base64(username ":" password), computed once by NewWordPressClient.
WordPressAuth == "base64(user:pass)"

\* The languages NewWordPressClient primes, in the order of its slice.
languages == <<"en", "fr">>
Languages == {languages[i] : i \in 1..Len(languages)}

\* siteNames as built by main.
SiteNames == [en |-> "Site", fr |-> "Site FR"]

\* ------------------------------------------------------------------------
\* pkg/models: NewMenuData
\* ------------------------------------------------------------------------

\* Mutant of MenuItemData: every occurrence of the base URL is removed.
MenuItemDataReplaceAll(item, baseUrl) ==
    [ID       |-> item.ID,
     Title    |-> item.Title,
     Url      |-> ReplaceAll(item.Url, baseUrl, EMPTY),
     Children |-> <<>>]

\* A menu node is allocated per distinct item id: the first loop stores the
\* node under menuMap[item.ID], so a later item with the same id replaces the
\* earlier node, and every pointer taken in the second loop is menuMap[id].
\* A pointer to a node is therefore modelled by the node's id.
MenuItemData(item, baseUrl) ==
    [ID       |-> item.ID,
     Title    |-> item.Title,
     Url      |-> Replace(item.Url, baseUrl, EMPTY, 1),
     Children |-> <<>>]

\* First loop of NewMenuData: the id -> node map after items 1..n.
RECURSIVE MenuMapAfter(_, _, _)
MenuMapAfter(menuItems, baseUrl, n) ==
    IF n = 0 THEN <<>>
    ELSE LET prev == MenuMapAfter(menuItems, baseUrl, n - 1)
             item == menuItems[n]
         IN  [id \in DOMAIN prev \cup {item.ID} |->
                IF id = item.ID THEN MenuItemData(item, baseUrl) ELSE prev[id]]

\* Mutant of AttachItem: a child is attached only to a parent that is
\* already in the tree, as a single pass over the items would do.
AttachItemParentFirst(st, item) ==
    IF item.Parent # 0
    THEN IF item.Parent \in
               {st.menuTree[i] : i \in 1..Len(st.menuTree)}
                   \cup UNION {{st.menuMap[p].Children[i] :
                                   i \in 1..Len(st.menuMap[p].Children)} :
                               p \in DOMAIN st.menuMap}
         THEN [st EXCEPT !.menuMap[item.Parent].Children = Append(@, item.ID)]
         ELSE st
    ELSE [st EXCEPT !.menuTree = Append(@, item.ID)]

\* Mutant of AttachItem: an item whose parent is missing becomes top-level.
AttachItemOrphanToRoot(st, item) ==
    IF item.Parent # 0 /\ item.Parent \in DOMAIN st.menuMap
    THEN [st EXCEPT !.menuMap[item.Parent].Children = Append(@, item.ID)]
    ELSE [st EXCEPT !.menuTree = Append(@, item.ID)]

\* One iteration of the second loop, on the state [menuMap, menuTree].
AttachItem(st, item) ==
    IF item.Parent # 0
    THEN IF item.Parent \in DOMAIN st.menuMap
         THEN [st EXCEPT !.menuMap[item.Parent].Children = Append(@, item.ID)]
         ELSE st
    ELSE [st EXCEPT !.menuTree = Append(@, item.ID)]

\* Second loop of NewMenuData after items 1..n.
RECURSIVE TreeAfter(_, _, _)
TreeAfter(menuItems, baseUrl, n) ==
    IF n = 0
    THEN [menuMap  |-> MenuMapAfter(menuItems, baseUrl, Len(menuItems)),
          menuTree |-> <<>>]
    ELSE AttachItem(TreeAfter(menuItems, baseUrl, n - 1), menuItems[n])

\* The MenuData returned: Items are the root pointers, nodes is the heap of
\* MenuItemData they point into.
NewMenuData(menuItems, baseUrl) ==
    LET st == TreeAfter(menuItems, baseUrl, Len(menuItems))
    IN  [Items |-> st.menuTree, nodes |-> st.menuMap]

\* ------------------------------------------------------------------------
\* pkg/models: NewPageData
\* ------------------------------------------------------------------------

\* The language NewPageData resolves: "en" unless the page says "en" or "fr".
PageDataLang(page) ==
    IF page.Lang # "en" /\ page.Lang # "fr" THEN "en" ELSE page.Lang

\* Mutant of langPaths: the swap slug is the slug of the page's own
\* language.
langPathsOwnSlug(page) ==
    [en |-> [swap |-> <<"/", "f", "r", "/">>, slug |-> page.SlugEn, home |-> SLASH],
     fr |-> [swap |-> SLASH, slug |-> page.SlugFr, home |-> <<"/", "f", "r", "/">>]]

\* langPaths of NewPageData.
langPaths(page) ==
    [en |-> [swap |-> <<"/", "f", "r", "/">>, slug |-> page.SlugFr, home |-> SLASH],
     fr |-> [swap |-> SLASH, slug |-> page.SlugEn, home |-> <<"/", "f", "r", "/">>]]

\* Mutant of NewPageData: only the first occurrence of the base URL is
\* removed from the content.
NewPageDataReplaceOnce(page, menu, siteNames, baseUrl) ==
    LET lang == PageDataLang(page)
    IN  [Lang           |-> lang,
         LangSwapPath   |-> langPaths(page)[lang].swap,
         LangSwapSlug   |-> langPaths(page)[lang].slug,
         Home           |-> langPaths(page)[lang].home,
         Modified       |-> Split(page.Modified, <<"T">>)[1],
         Title          |-> page.Title,
         Content        |-> Replace(page.Content, baseUrl, EMPTY, 1),
         ShowBreadcrumb |-> ~Contains(page.Slug, HOME),
         SiteName       |-> siteNames[lang],
         Menu           |-> menu]

\* Mutant of NewPageData: the breadcrumb is hidden only for the two home
\* slugs themselves.
NewPageDataExactHome(page, menu, siteNames, baseUrl) ==
    LET lang == PageDataLang(page)
    IN  [Lang           |-> lang,
         LangSwapPath   |-> langPaths(page)[lang].swap,
         LangSwapSlug   |-> langPaths(page)[lang].slug,
         Home           |-> langPaths(page)[lang].home,
         Modified       |-> Split(page.Modified, <<"T">>)[1],
         Title          |-> page.Title,
         Content        |-> ReplaceAll(page.Content, baseUrl, EMPTY),
         ShowBreadcrumb |-> page.Slug \notin {HOME, HOME_FR},
         SiteName       |-> siteNames[lang],
         Menu           |-> menu]

\* menu is the *MenuData pointer handed in; it is stored, not copied.
NewPageData(page, menu, siteNames, baseUrl) ==
    LET lang == PageDataLang(page)
    IN  [Lang           |-> lang,
         LangSwapPath   |-> langPaths(page)[lang].swap,
         LangSwapSlug   |-> langPaths(page)[lang].slug,
         Home           |-> langPaths(page)[lang].home,
         Modified       |-> Split(page.Modified, <<"T">>)[1],
         Title          |-> page.Title,
         Content        |-> ReplaceAll(page.Content, baseUrl, EMPTY),
         ShowBreadcrumb |-> ~Contains(page.Slug, HOME),
         SiteName       |-> siteNames[lang],
         Menu           |-> menu]

\* ------------------------------------------------------------------------
\* internal/api: building the upstream requests
\* ------------------------------------------------------------------------

\* A control byte (below 0x20, or 0x7f), as one character of a path.
CTL == "\\x01"

\* http.NewRequest parses the URL and fails on one that holds a control
\* byte; this is what decides the err != nil branch after NewRequest.
NewRequestErr(url) ==
    \/ ContainsAny(url.base, {CTL})
    \/ ContainsAny(url.query, {CTL})

\* Mutant of TrimmedPath: the trailing slash is kept.
TrimmedPathKeepsSlash(path) == path

\* path = strings.TrimSuffix(path, "/")
TrimmedPath(path) == TrimSuffix(path, SLASH)

\* Mutant of homePages: the keys are paths instead of slugs.
homePagesKeyedByPath == (SLASH :> HOME) @@ (<<"/", "f", "r">> :> HOME_FR)

\* homePages of FetchPage: the slugs that stand for a home page.
homePages == (EMPTY :> HOME) @@ (FR :> HOME_FR)

\* The slug FetchPage queries: the text after the last "/" of the trimmed
\* path, replaced by its home slug when it is a key of homePages.
FetchPageSlug(path) ==
    LET p    == TrimmedPath(path)
        slug == Slice(p, LastIndex(p, SLASH) + 1, Len(p))
    IN  IF slug \in DOMAIN homePages THEN homePages[slug] ELSE slug

\* Mutant of FetchPageLang: "fr" in any segment selects French.
FetchPageLangAnySegment(path) ==
    LET segments == Split(TrimmedPath(path), SLASH)
    IN  IF \E i \in 1..Len(segments) : segments[i] = FR THEN "fr" ELSE "en"

\* The language FetchPage queries: "fr" when segments[1] (Go's 0-based
\* index, the second segment) of the trimmed path is "fr", else "en".
FetchPageLang(path) ==
    LET segments == Split(TrimmedPath(path), SLASH)
    IN  IF Len(segments) > 1 /\ segments[2] = FR THEN "fr" ELSE "en"

\* The language code as it is written into the URL.
LangChars(lang) == IF lang = "fr" THEN FR ELSE EN

\* fmt.Sprintf("%s/wp-json/wp/v2/pages?slug=%s&lang=%s", BaseURL, slug, lang):
\* the endpoint is kept as a name, the query string is spelled out.
PagesURL(baseURL, slug, lang) ==
    [base     |-> baseURL,
     endpoint |-> "/wp-json/wp/v2/pages",
     query    |-> <<"s", "l", "u", "g", "=">> \o slug
                    \o <<"&", "l", "a", "n", "g", "=">> \o LangChars(lang),
     slug     |-> slug,
     lang     |-> lang]

\* Mutant of FetchPageRequest: the pages request carries the credential.
FetchPageRequestWithAuth(baseURL, path) ==
    [method |-> "GET",
     url    |-> PagesURL(baseURL, FetchPageSlug(path), FetchPageLang(path)),
     header |-> [Authorization |-> <<"Basic ", WordPressAuth>>]]

\* The request FetchPage builds for a path: a GET without any header.
FetchPageRequest(baseURL, path) ==
    [method |-> "GET",
     url    |-> PagesURL(baseURL, FetchPageSlug(path), FetchPageLang(path)),
     header |-> <<>>]

\* Mutant of FetchMenuId: the language is ignored.
FetchMenuIdAlwaysEn(lang) == MenuIdEn

\* menuId := c.MenuIdEn; if lang == "fr" { menuId = c.MenuIdFr }
FetchMenuId(lang) == IF lang = "fr" THEN MenuIdFr ELSE MenuIdEn

\* fmt.Sprintf("%s/wp-json/wp/v2/menu-items?menus=%s", BaseURL, menuId)
MenuItemsURL(baseURL, menuId) ==
    [base     |-> baseURL,
     endpoint |-> "/wp-json/wp/v2/menu-items",
     query    |-> <<"m", "e", "n", "u", "s", "=">>,
     menus    |-> menuId]

\* The request FetchMenu builds: a GET carrying the Basic credential.
FetchMenuRequest(baseURL, lang) ==
    [method |-> "GET",
     url    |-> MenuItemsURL(baseURL, FetchMenuId(lang)),
     header |-> [Authorization |-> <<"Basic ", WordPressAuth>>]]

\* ------------------------------------------------------------------------
\* internal/api: reading the upstream response
\* ------------------------------------------------------------------------
\* An upstream exchange ends in one of
\*   [kind |-> "transport", cause]                client.Do returned an error
\*   [kind |-> "http", status, body, readErr]     a response arrived
\* body.text is what io.ReadAll returned of the body, readErr tells whether it
\* returned an error with it, and body.json is what the text is as JSON:
\*   [kind |-> "syntax"]  not JSON          [kind |-> "type"]  JSON, not an array
\*   [kind |-> "null"]    the value null    [kind |-> "array", elems |-> <<..>>]
\* An error is a record [type, msg], msg being the pieces of err.Error();
\* a nil error or nil pointer is the empty sequence, a value is <<v>>.

StatusOK == 200

\* The *url.Error client.Do returns.
TransportError(resp) ==
    [type |-> "*url.Error", msg |-> <<"Get ", "url", ": ", resp.cause>>]

\* Mutant of StatusError: the error is the upstream body alone.
StatusErrorBodyOnly(resp) ==
    [type |-> "*errors.errorString", msg |-> <<resp.body.text>>]

\* fmt.Errorf("WordPress API returned status: %d, body: %s", status, body)
StatusError(resp) ==
    [type |-> "*errors.errorString",
     msg  |-> <<"WordPress API returned status: ", ToString(resp.status),
                ", body: ", resp.body.text>>]

\* The error io.ReadAll returns when the body stream breaks.
ReadError == [type |-> "*errors.errorString", msg |-> <<"unexpected EOF">>]

\* fmt.Errorf("page not found")
PageNotFound == [type |-> "*errors.errorString", msg |-> <<"page not found">>]

\* json.Unmarshal(body, &slice): the slice and the error.
Unmarshal(body) ==
    IF body.json.kind = "syntax"
    THEN [val |-> <<>>, err |-> <<[type |-> "*json.SyntaxError",
                                   msg  |-> <<"invalid character">>]>>]
    ELSE IF body.json.kind = "type"
    THEN [val |-> <<>>, err |-> <<[type |-> "*json.UnmarshalTypeError",
                                   msg  |-> <<"json: cannot unmarshal">>]>>]
    ELSE IF body.json.kind = "null"
    THEN [val |-> <<>>, err |-> <<>>]
    ELSE [val |-> body.json.elems, err |-> <<>>]

\* Mutant of FetchPageResult: every 2xx status is taken for success.
FetchPageResultAny2xx(resp) ==
    IF resp.kind = "transport"
    THEN [page |-> <<>>, err |-> <<TransportError(resp)>>]
    ELSE IF resp.status < 200 \/ resp.status > 299
    THEN [page |-> <<>>, err |-> <<StatusError(resp)>>]
    ELSE IF resp.readErr
    THEN [page |-> <<>>, err |-> <<ReadError>>]
    ELSE IF Unmarshal(resp.body).err # <<>>
    THEN [page |-> <<>>, err |-> Unmarshal(resp.body).err]
    ELSE IF Len(Unmarshal(resp.body).val) = 0
    THEN [page |-> <<>>, err |-> <<PageNotFound>>]
    ELSE [page |-> <<Unmarshal(resp.body).val[1]>>, err |-> <<>>]

\* FetchPage from the return of client.Do on: (page, err).
FetchPageResult(resp) ==
    IF resp.kind = "transport"
    THEN [page |-> <<>>, err |-> <<TransportError(resp)>>]
    ELSE IF resp.status # StatusOK
    THEN [page |-> <<>>, err |-> <<StatusError(resp)>>]
    ELSE IF resp.readErr
    THEN [page |-> <<>>, err |-> <<ReadError>>]
    ELSE IF Unmarshal(resp.body).err # <<>>
    THEN [page |-> <<>>, err |-> Unmarshal(resp.body).err]
    ELSE IF Len(Unmarshal(resp.body).val) = 0
    THEN [page |-> <<>>, err |-> <<PageNotFound>>]
    ELSE [page |-> <<Unmarshal(resp.body).val[1]>>, err |-> <<>>]

\* FetchMenu from the return of client.Do on: (menuItems, err).
FetchMenuResult(resp) ==
    IF resp.kind = "transport"
    THEN [items |-> <<>>, err |-> <<TransportError(resp)>>]
    ELSE IF resp.status # StatusOK
    THEN [items |-> <<>>, err |-> <<StatusError(resp)>>]
    ELSE IF resp.readErr
    THEN [items |-> <<>>, err |-> <<ReadError>>]
    ELSE IF Unmarshal(resp.body).err # <<>>
    THEN [items |-> <<>>, err |-> Unmarshal(resp.body).err]
    ELSE [items |-> <<Unmarshal(resp.body).val>>, err |-> <<>>]

\* ------------------------------------------------------------------------
\* internal/handlers: request validation of PageHandler.ServeHTTP
\* ------------------------------------------------------------------------

\* filepath.Ext: the suffix from the last "." of the last path element on;
\* empty when that element has no ".".
Ext(path) ==
    LET dots == {i \in 1..Len(path) :
                    /\ path[i] = "."
                    /\ \A j \in i..Len(path) : path[j] # "/"}
    IN  IF dots = {} THEN EMPTY
        ELSE SubSeq(path, CHOOSE i \in dots : \A j \in dots : i >= j, Len(path))

\* The backquote character (the lexer takes no backquote inside a string).
BACKQUOTE == "\\x60"

\* The characters ContainsAny looks for: < > " ' % \ backquote ^ { } |
InvalidChars == {"<", ">", "\"", "'", "%", "\\", BACKQUOTE, "^", "{", "}", "|"}

\* len(path) > 255
MaxURLLen == 255

StatusMethodNotAllowed == 405
StatusNotFound == 404
StatusBadRequest == 400
StatusRequestURITooLong == 414
StatusInternalServerError == 500

\* Mutant of Rejection: the characters are checked before the extension.
RejectionCharsFirst(method, path) ==
    IF method # "GET" /\ method # "HEAD" /\ method # "OPTIONS"
    THEN StatusMethodNotAllowed
    ELSE IF ContainsAny(path, InvalidChars) THEN StatusBadRequest
    ELSE IF Ext(path) # EMPTY THEN StatusNotFound
    ELSE IF Len(path) > MaxURLLen THEN StatusRequestURITooLong
    ELSE 0

\* The status of the first failing check of ServeHTTP, 0 when all pass.
Rejection(method, path) ==
    IF method # "GET" /\ method # "HEAD" /\ method # "OPTIONS"
    THEN StatusMethodNotAllowed
    ELSE IF Ext(path) # EMPTY THEN StatusNotFound
    ELSE IF ContainsAny(path, InvalidChars) THEN StatusBadRequest
    ELSE IF Len(path) > MaxURLLen THEN StatusRequestURITooLong
    ELSE 0

\* The text http.Error / http.NotFound writes for a rejection.
RejectionBody(status) ==
    IF status = StatusMethodNotAllowed THEN "Method not allowed"
    ELSE IF status = StatusNotFound THEN "404 page not found"
    ELSE IF status = StatusBadRequest THEN "Invalid URL"
    ELSE "URI too long"

\* Mutant of SecurityHeaders: framing is denied instead of kept to the
\* same origin.
SecurityHeadersFrameDeny ==
    [StrictTransportSecurity |-> "max-age=31536000; includeSubDomains; preload",
     XFrameOptions           |-> "DENY",
     XContentTypeOptions     |-> "nosniff",
     ReferrerPolicy          |-> "no-referrer-when-downgrade"]

\* The headers SecurityHeaders sets before it calls the page handler.
SecurityHeaders ==
    [StrictTransportSecurity |-> "max-age=31536000; includeSubDomains; preload",
     XFrameOptions           |-> "SAMEORIGIN",
     XContentTypeOptions     |-> "nosniff",
     ReferrerPolicy          |-> "no-referrer-when-downgrade"]

\* ------------------------------------------------------------------------
\* The upstream CMS: what it can answer
\* ------------------------------------------------------------------------

ItemsEn ==
    <<[ID |-> 1, Title |-> "Home", Parent |-> 0, Url |-> BaseURL \o <<"/">>],
      [ID |-> 2, Title |-> "About", Parent |-> 1, Url |-> BaseURL \o <<"/", "a">>]>>

ItemsFr ==
    <<[ID |-> 4, Title |-> "A propos", Parent |-> 3,
       Url |-> BaseURL \o <<"/", "f", "r", "/", "a">>],
      [ID |-> 3, Title |-> "Accueil", Parent |-> 0,
       Url |-> BaseURL \o <<"/", "f", "r">>]>>

MenuIds == {MenuIdEn, MenuIdFr}

\* The item list upstream holds for a menu id.
MenuBody(menuId) ==
    [text |-> "[items of menu " \o menuId \o "]",
     json |-> [kind  |-> "array",
               elems |-> IF menuId = MenuIdEn THEN ItemsEn ELSE ItemsFr]]

TextBodies ==
    {[text |-> "Internal server error", json |-> [kind |-> "syntax"]],
     [text |-> "page not found", json |-> [kind |-> "syntax"]]}

ShapeBodies ==
    {[text |-> "{}", json |-> [kind |-> "type"]],
     [text |-> "null", json |-> [kind |-> "null"]],
     [text |-> "[]", json |-> [kind |-> "array", elems |-> <<>>]]}

Timeout ==
    [kind |-> "transport",
     cause |-> "context deadline exceeded (Client.Timeout exceeded while awaiting headers)"]

Http(status, body, readErr) ==
    [kind |-> "http", status |-> status, body |-> body, readErr |-> readErr]

Statuses == {200, 201, 204, 304, 404, 500}

\* What upstream can answer to a menu-items request for menuId.
MenuResponses(menuId) ==
    {Timeout,
     Http(500, [text |-> "Internal server error", json |-> [kind |-> "syntax"]], TRUE),
     Http(200, MenuBody(menuId), TRUE)}
    \cup {Http(st, body, FALSE) :
            st \in Statuses \ {200},
            body \in {[text |-> "Internal server error", json |-> [kind |-> "syntax"]],
                      MenuBody(menuId)}}
    \cup {Http(200, body, FALSE) :
            body \in {[text |-> "{}", json |-> [kind |-> "type"]],
                      [text |-> "null", json |-> [kind |-> "null"]],
                      MenuBody(menuId)}}
    \cup {Http(200, [text |-> "<html>", json |-> [kind |-> "syntax"]], FALSE)}

PageAbout ==
    [ID |-> 10, Slug |-> <<"a">>, SlugEn |-> <<"a">>, SlugFr |-> <<"b">>,
     Lang |-> "en", Modified |-> <<"1", "T", "2">>, Title |-> <<"A">>,
     Content |-> <<"x">> \o BaseURL \o <<"/", "a">>]

PageAPropos ==
    [ID |-> 11, Slug |-> <<"b">>, SlugEn |-> <<"a">>, SlugFr |-> <<"b">>,
     Lang |-> "fr", Modified |-> <<"1", "T", "2">>, Title |-> <<"B">>,
     Content |-> BaseURL \o <<"/", "f", "r", "/", "b">>]

PageHomeDe ==
    [ID |-> 12, Slug |-> HOME, SlugEn |-> HOME, SlugFr |-> HOME_FR,
     Lang |-> "de", Modified |-> <<"3">>, Title |-> <<"H">>,
     Content |-> <<"y">>]

Pages == {PageAbout, PageAPropos, PageHomeDe}

PagesBody(pages) ==
    [text |-> "[pages]", json |-> [kind |-> "array", elems |-> pages]]

\* What upstream answers to a pages request in the specification of the
\* whole server.
PageResponses ==
    {Timeout,
     Http(500, [text |-> "Internal server error", json |-> [kind |-> "syntax"]], FALSE),
     Http(201, PagesBody(<<PageAbout>>), FALSE),
     Http(200, [text |-> "[]", json |-> [kind |-> "array", elems |-> <<>>]], FALSE),
     Http(200, [text |-> "<html>", json |-> [kind |-> "syntax"]], FALSE)}
    \cup {Http(200, PagesBody(<<p>>), FALSE) : p \in Pages}

\* Every answer to a pages request: each status with each body, read whole or
\* broken off, and the transport failures.

AllPageResponses ==
    {Timeout, [kind |-> "transport", cause |-> "connection refused"]}
    \cup {Http(st, b, re) :
            st \in Statuses,
            b \in TextBodies \cup ShapeBodies
                    \cup {PagesBody(<<PageAbout>>), PagesBody(<<PageAPropos, PageAbout>>)},
            re \in BOOLEAN}

\* The inbound requests of the specification of the whole server: a method
\* that is refused and one that is not; the French home page, a page with a
\* trailing slash, a forbidden character and a control byte.
ReqMethods == {"GET", "POST"}

ReqPaths == {<<"/", "f", "r">>, <<"/", "a", "/">>, <<"/", "<">>, <<"/", CTL>>}

\* Every path of at most MaxPathLen characters over PathChars.
PathChars == {"/", "f", "r", "."}
AllPaths == SeqsUpTo(PathChars, MaxPathLen)

\* ------------------------------------------------------------------------
\* State
\* ------------------------------------------------------------------------

VARIABLES
    mainPc,     \* where main is: "start", "recv" (in NewWordPressClient's
                \* receive loop), "returned" (NewWordPressClient returned),
                \* "serving", "fatal" (log.Fatal ended the process), or
                \* "direct" (FetchPage is called on a bare client, no server)
    upMenu,     \* what upstream answers for each menu id
    wpc,        \* per language, where its fetch goroutine is
    wsent,      \* per language, the upstream requests its goroutine issued
    wres,       \* per language, what FetchMenu returned to the goroutine
    results,    \* the buffered channel of MenuResult
    received,   \* completed iterations of the receive loop
    Menus,      \* client.Menus: language -> pointer to MenuData (heap index)
    heap,       \* the MenuData objects allocated by NewMenuData
    req         \* the inbound page requests, by number

vars == <<mainPc, upMenu, wpc, wsent, wres, results, received, Menus, heap, req>>

startup == <<upMenu, wpc, wsent, wres, results, received>>

Requests == 1..MaxRequests

\* An inbound request not yet made.
IdleRequest ==
    [pc      |-> "idle",
     method  |-> "",
     path    |-> EMPTY,
     sent    |-> <<>>,     \* the upstream requests issued for it
     resp    |-> <<>>,     \* the upstream answer, once there
     fetch   |-> <<>>,     \* what FetchPage returned, once it did
     data    |-> <<>>,     \* the PageData handed to the template
     status  |-> 0,        \* the response written
     body    |-> "",
     headers |-> <<>>]

Init ==
    /\ mainPc = "start"
    /\ upMenu \in [MenuIds -> UNION {MenuResponses(m) : m \in MenuIds}]
    /\ \A m \in MenuIds : upMenu[m] \in MenuResponses(m)
    /\ wpc = [l \in Languages |-> "none"]
    /\ wsent = [l \in Languages |-> <<>>]
    /\ wres = [l \in Languages |-> <<>>]
    /\ results = <<>>
    /\ received = 0
    /\ Menus = <<>>
    /\ heap = <<>>
    /\ req = [n \in Requests |-> IdleRequest]

\* ------------------------------------------------------------------------
\* NewWordPressClient
\* ------------------------------------------------------------------------

\* The client is built with an empty Menus map, the channel is made with
\* room for len(languages) results and one goroutine per language is started.
NewWordPressClient ==
    /\ mainPc = "start"
    /\ mainPc' = "recv"
    /\ Menus' = <<>>
    /\ wpc' = [l \in Languages |-> "ready"]
    /\ UNCHANGED <<upMenu, wsent, wres, results, received, heap, req>>

\* A goroutine enters FetchMenu and client.Do sends its request.
\* (NewRequest cannot fail here: BaseURL and the menu ids hold no control
\* byte.)
FetchMenu(lang) ==
    /\ mainPc = "recv"
    /\ wpc[lang] = "ready"
    /\ wsent' = [wsent EXCEPT ![lang] = Append(@, FetchMenuRequest(BaseURL, lang))]
    /\ wpc' = [wpc EXCEPT ![lang] = "waiting"]
    /\ UNCHANGED <<mainPc, upMenu, wres, results, received, Menus, heap, req>>

\* client.Do returns (an answer, or an error at the latest after the
\* 3-second timeout) and FetchMenu returns to the goroutine.
FetchMenuReturn(lang) ==
    /\ mainPc = "recv"
    /\ wpc[lang] = "waiting"
    /\ wres' = [wres EXCEPT
                  ![lang] = <<FetchMenuResult(upMenu[wsent[lang][Len(wsent[lang])].url.menus])>>]
    /\ wpc' = [wpc EXCEPT ![lang] = "sending"]
    /\ UNCHANGED <<mainPc, upMenu, wsent, results, received, Menus, heap, req>>

\* m with key k set to v.
MapPut(m, k, v) == [x \in DOMAIN m \cup {k} |-> IF x = k THEN v ELSE m[x]]

\* Mutant of SendResult: the goroutine builds the MenuData and stores it in
\* client.Menus itself before it sends its result.
SendResultStoresMenu(lang) ==
    /\ mainPc = "recv"
    /\ wpc[lang] = "sending"
    /\ Len(results) < Len(languages)
    /\ results' = Append(results, [Lang      |-> lang,
                                   MenuItems |-> wres[lang][1].items,
                                   Err       |-> wres[lang][1].err])
    /\ wpc' = [wpc EXCEPT ![lang] = "done"]
    /\ IF wres[lang][1].err # <<>>
       THEN UNCHANGED <<Menus, heap>>
       ELSE /\ heap' = Append(heap, NewMenuData(wres[lang][1].items[1], BaseURL))
            /\ Menus' = MapPut(Menus, lang, Len(heap) + 1)
    /\ UNCHANGED <<mainPc, upMenu, wsent, wres, received, req>>

\* results <- MenuResult{Lang, MenuItems, Err}; the send waits while the
\* channel is full.
SendResult(lang) ==
    /\ mainPc = "recv"
    /\ wpc[lang] = "sending"
    /\ Len(results) < Len(languages)
    /\ results' = Append(results, [Lang      |-> lang,
                                   MenuItems |-> wres[lang][1].items,
                                   Err       |-> wres[lang][1].err])
    /\ wpc' = [wpc EXCEPT ![lang] = "done"]
    /\ UNCHANGED <<mainPc, upMenu, wsent, wres, received, Menus, heap, req>>

\* Mutant of ReceiveResult: a failed result is logged and skipped instead of
\* ending the process.
ReceiveResultSkipFailed ==
    /\ mainPc = "recv"
    /\ results # <<>>
    /\ results' = Tail(results)
    /\ LET result == Head(results)
       IN  /\ IF result.Err # <<>>
              THEN UNCHANGED <<Menus, heap>>
              ELSE /\ heap' = Append(heap, NewMenuData(result.MenuItems[1], BaseURL))
                   /\ Menus' = MapPut(Menus, result.Lang, Len(heap) + 1)
           /\ received' = received + 1
           /\ mainPc' = IF received + 1 = Len(languages) THEN "returned" ELSE "recv"
    /\ UNCHANGED <<upMenu, wpc, wsent, wres, req>>

\* Mutant of ReceiveResult: the MenuData is stored under the language of the
\* loop iteration instead of the language of the result.
ReceiveResultByIndex ==
    /\ mainPc = "recv"
    /\ results # <<>>
    /\ results' = Tail(results)
    /\ LET result == Head(results)
       IN  IF result.Err # <<>>
           THEN /\ mainPc' = "fatal"
                /\ UNCHANGED <<received, Menus, heap>>
           ELSE /\ heap' = Append(heap, NewMenuData(result.MenuItems[1], BaseURL))
                /\ Menus' = MapPut(Menus, languages[received + 1], Len(heap) + 1)
                /\ received' = received + 1
                /\ mainPc' = IF received + 1 = Len(languages)
                             THEN "returned" ELSE "recv"
    /\ UNCHANGED <<upMenu, wpc, wsent, wres, req>>

\* Mutant of ReceiveResult: a failed result is dropped and the loop waits
\* for one more result in its place.
ReceiveResultWaitsForSuccess ==
    /\ mainPc = "recv"
    /\ results # <<>>
    /\ results' = Tail(results)
    /\ LET result == Head(results)
       IN  IF result.Err # <<>>
           THEN UNCHANGED <<mainPc, received, Menus, heap>>
           ELSE /\ heap' = Append(heap, NewMenuData(result.MenuItems[1], BaseURL))
                /\ Menus' = MapPut(Menus, result.Lang, Len(heap) + 1)
                /\ received' = received + 1
                /\ mainPc' = IF received + 1 = Len(languages)
                             THEN "returned" ELSE "recv"
    /\ UNCHANGED <<upMenu, wpc, wsent, wres, req>>

\* One iteration of the receive loop: a failed result ends the process in
\* log.Fatalf, any other is built into a MenuData stored under its language.
ReceiveResult ==
    /\ mainPc = "recv"
    /\ results # <<>>
    /\ results' = Tail(results)
    /\ LET result == Head(results)
       IN  IF result.Err # <<>>
           THEN /\ mainPc' = "fatal"
                /\ UNCHANGED <<received, Menus, heap>>
           ELSE /\ heap' = Append(heap, NewMenuData(result.MenuItems[1], BaseURL))
                /\ Menus' = MapPut(Menus, result.Lang, Len(heap) + 1)
                /\ received' = received + 1
                /\ mainPc' = IF received + 1 = Len(languages)
                             THEN "returned" ELSE "recv"
    /\ UNCHANGED <<upMenu, wpc, wsent, wres, req>>

\* main after NewWordPressClient: NewPageHandler parses the template (and
\* ends the process when that fails), the routes are set and serving starts.
NewPageHandler ==
    /\ mainPc = "returned"
    /\ \E parsed \in BOOLEAN : mainPc' = IF parsed THEN "serving" ELSE "fatal"
    /\ UNCHANGED <<startup, Menus, heap, req>>

\* ------------------------------------------------------------------------
\* Page requests: SecurityHeaders, PageHandler.ServeHTTP, handlePage
\* ------------------------------------------------------------------------

\* http.Error(w, body, status) on the response of r: it sets Content-Type
\* and X-Content-Type-Options, writes the status and then the text.
ErrorResponse(r, status, body) ==
    [r EXCEPT !.pc = "done", !.status = status, !.body = body,
              !.headers = MapPut(MapPut(@, "ContentType", "text/plain; charset=utf-8"),
                                 "XContentTypeOptions", "nosniff")]

\* FetchPage up to the return of client.Do, for the request r: it builds
\* the upstream request and sends it, or returns the error of NewRequest.
FetchPageStart(r, path) ==
    LET upstream == FetchPageRequest(BaseURL, path)
    IN  IF NewRequestErr(upstream.url)
        THEN [r EXCEPT !.pc = "fetched",
                       !.fetch = <<[page |-> <<>>,
                                    err  |-> <<[type |-> "*url.Error",
                                                msg  |-> <<"parse ", "url", ": ",
                                                           "net/url: invalid control character in URL">>]>>]>>]
        ELSE [r EXCEPT !.pc = "fetching", !.sent = Append(@, upstream)]

\* Mutant of PageMenu: the English menu is handed out for every page.
PageMenuAlwaysEn(menus, page) ==
    IF "en" \in DOMAIN menus THEN menus["en"] ELSE 0

\* menu, ok := Menus[page.Lang]; if !ok { menu = Menus["en"] }.  A key that
\* is not in the map reads as the nil pointer, 0.
PageMenu(menus, page) ==
    IF page.Lang \in DOMAIN menus THEN menus[page.Lang]
    ELSE IF "en" \in DOMAIN menus THEN menus["en"]
    ELSE 0

\* Mutant of HandlePageResult: the text of the fetch error is written to
\* the end user.
HandlePageResultLeaksError(r, menus, rendered) ==
    IF r.fetch[1].err # <<>>
    THEN ErrorResponse(r, StatusInternalServerError,
                       r.fetch[1].err[1].msg[Len(r.fetch[1].err[1].msg)])
    ELSE LET page == r.fetch[1].page[1]
             data == NewPageData(page, PageMenu(menus, page), SiteNames, BaseURL)
         IN  IF rendered
             THEN [r EXCEPT !.pc = "done", !.data = <<data>>,
                            !.status = StatusOK, !.body = "layout.html"]
             ELSE ErrorResponse([r EXCEPT !.data = <<data>>],
                                StatusInternalServerError, "Error rendering template")

\* Mutant of HandlePageResult: "page not found" is answered with 404.
HandlePageResultNotFound404(r, menus, rendered) ==
    IF r.fetch[1].err # <<>>
    THEN IF r.fetch[1].err[1].msg = <<"page not found">>
         THEN ErrorResponse(r, StatusNotFound, "404 page not found")
         ELSE ErrorResponse(r, StatusInternalServerError, "Error fetching page content")
    ELSE LET page == r.fetch[1].page[1]
             data == NewPageData(page, PageMenu(menus, page), SiteNames, BaseURL)
         IN  IF rendered
             THEN [r EXCEPT !.pc = "done", !.data = <<data>>,
                            !.status = StatusOK, !.body = "layout.html"]
             ELSE ErrorResponse([r EXCEPT !.data = <<data>>],
                                StatusInternalServerError, "Error rendering template")

\* Mutant of HandlePageResult: the view model is built in the language
\* FetchPage queried, not in the one the page carries.
HandlePageResultQueriedLang(r, menus, rendered) ==
    IF r.fetch[1].err # <<>>
    THEN ErrorResponse(r, StatusInternalServerError, "Error fetching page content")
    ELSE LET page == [r.fetch[1].page[1] EXCEPT !.Lang = r.sent[1].url.lang]
             data == NewPageData(page, PageMenu(menus, page), SiteNames, BaseURL)
         IN  IF rendered
             THEN [r EXCEPT !.pc = "done", !.data = <<data>>,
                            !.status = StatusOK, !.body = "layout.html"]
             ELSE ErrorResponse([r EXCEPT !.data = <<data>>],
                                StatusInternalServerError, "Error rendering template")

\* handlePage from the return of FetchPage on, for the request r whose
\* fetch field holds what FetchPage returned. rendered tells whether
\* ExecuteTemplate succeeded.
HandlePageResult(r, menus, rendered) ==
    IF r.fetch[1].err # <<>>
    THEN ErrorResponse(r, StatusInternalServerError, "Error fetching page content")
    ELSE LET page == r.fetch[1].page[1]
             data == NewPageData(page, PageMenu(menus, page), SiteNames, BaseURL)
         IN  IF rendered
             THEN [r EXCEPT !.pc = "done", !.data = <<data>>,
                            !.status = StatusOK, !.body = "layout.html"]
             ELSE ErrorResponse([r EXCEPT !.data = <<data>>],
                                StatusInternalServerError, "Error rendering template")

\* An inbound request reaches the route "/": SecurityHeaders sets its
\* headers, ServeHTTP validates method and path and either rejects the
\* request or calls handlePage, which runs FetchPage up to client.Do.
\* Requests are numbered in their order of arrival.
ServeHTTP(n, method, path) ==
    /\ mainPc = "serving"
    /\ req[n].pc = "idle"
    /\ IF n = 1 THEN TRUE ELSE req[n - 1].pc # "idle"
    /\ LET r   == [req[n] EXCEPT !.method = method, !.path = path,
                                 !.headers = SecurityHeaders]
           rej == Rejection(method, path)
       IN  \E rendered \in BOOLEAN :
             req' = [req EXCEPT ![n] =
                IF rej # 0 THEN ErrorResponse(r, rej, RejectionBody(rej))
                ELSE IF FetchPageStart(r, path).pc = "fetched"
                THEN HandlePageResult(FetchPageStart(r, path), Menus, rendered)
                ELSE FetchPageStart(r, path)]
    /\ UNCHANGED <<mainPc, startup, Menus, heap>>

\* Mutant of PageResponse: a menu found missing for the page's language is
\* stored in the cache under that language.
PageResponseCaching(n, resp) ==
    /\ mainPc = "serving"
    /\ req[n].pc = "fetching"
    /\ \E rendered \in BOOLEAN :
         req' = [req EXCEPT ![n] =
            HandlePageResult([@ EXCEPT !.resp = <<resp>>,
                                       !.fetch = <<FetchPageResult(resp)>>],
                             Menus, rendered)]
    /\ Menus' = IF /\ FetchPageResult(resp).err = <<>>
                   /\ FetchPageResult(resp).page[1].Lang \notin DOMAIN Menus
                THEN MapPut(Menus, FetchPageResult(resp).page[1].Lang, Menus["en"])
                ELSE Menus
    /\ UNCHANGED <<mainPc, startup, heap>>

\* Mutant of PageResponse: a transport failure is retried.
PageResponseRetry(n, resp) ==
    /\ mainPc = "serving"
    /\ req[n].pc = "fetching"
    /\ \E rendered \in BOOLEAN :
         req' = [req EXCEPT ![n] =
            IF resp.kind = "transport" /\ Len(@.sent) < 2
            THEN [@ EXCEPT !.sent = Append(@, FetchPageRequest(BaseURL, req[n].path))]
            ELSE HandlePageResult([@ EXCEPT !.resp = <<resp>>,
                                            !.fetch = <<FetchPageResult(resp)>>],
                                  Menus, rendered)]
    /\ UNCHANGED <<mainPc, startup, Menus, heap>>

\* client.Do returns for the request n with the upstream answer resp (at
\* the latest after the 3-second timeout), FetchPage returns and handlePage
\* runs to its end.
PageResponse(n, resp) ==
    /\ mainPc = "serving"
    /\ req[n].pc = "fetching"
    /\ \E rendered \in BOOLEAN :
         req' = [req EXCEPT ![n] =
            HandlePageResult([@ EXCEPT !.resp = <<resp>>,
                                       !.fetch = <<FetchPageResult(resp)>>],
                             Menus, rendered)]
    /\ UNCHANGED <<mainPc, startup, Menus, heap>>

Next ==
    \/ NewWordPressClient
    \/ \E lang \in Languages : FetchMenu(lang)
    \/ \E lang \in Languages : FetchMenuReturn(lang)
    \/ \E lang \in Languages : SendResult(lang)
    \/ ReceiveResult
    \/ NewPageHandler
    \/ \E n \in Requests, method \in ReqMethods, path \in ReqPaths :
            ServeHTTP(n, method, path)
    \/ \E n \in Requests, resp \in PageResponses : PageResponse(n, resp)

Spec == Init /\ [][Next]_vars

\* ------------------------------------------------------------------------
\* FetchPage called directly on a client, as the tests of the api package
\* do: every path and every upstream answer
\* ------------------------------------------------------------------------

\* A client literal: &WordPressClient{BaseURL: ...}; no menus, no server.
InitDirect ==
    /\ mainPc = "direct"
    /\ upMenu = [m \in MenuIds |-> Timeout]
    /\ wpc = [l \in Languages |-> "none"]
    /\ wsent = [l \in Languages |-> <<>>]
    /\ wres = [l \in Languages |-> <<>>]
    /\ results = <<>>
    /\ received = 0
    /\ Menus = <<>>
    /\ heap = <<>>
    /\ req = [n \in Requests |-> IdleRequest]

\* client.FetchPage(path), up to client.Do.
FetchPage(n, path) ==
    /\ mainPc = "direct"
    /\ req[n].pc = "idle"
    /\ req' = [req EXCEPT ![n] = FetchPageStart([@ EXCEPT !.path = path], path)]
    /\ UNCHANGED <<mainPc, startup, Menus, heap>>

\* client.Do returns and FetchPage returns to its caller.
FetchPageReturn(n, resp) ==
    /\ mainPc = "direct"
    /\ req[n].pc = "fetching"
    /\ req' = [req EXCEPT ![n] = [@ EXCEPT !.pc = "fetched",
                                           !.resp = <<resp>>,
                                           !.fetch = <<FetchPageResult(resp)>>]]
    /\ UNCHANGED <<mainPc, startup, Menus, heap>>

\* Every path, with the answers of the server specification.
NextDirect ==
    \/ \E path \in AllPaths : FetchPage(1, path)
    \/ \E resp \in PageResponses : FetchPageReturn(1, resp)

SpecDirect == InitDirect /\ [][NextDirect]_vars

\* Every answer, with the paths of the server specification.
NextAnswers ==
    \/ \E path \in ReqPaths : FetchPage(1, path)
    \/ \E resp \in AllPageResponses : FetchPageReturn(1, resp)

SpecAnswers == InitDirect /\ [][NextAnswers]_vars

\* ------------------------------------------------------------------------
\* The page handler on its own, as the tests of the handlers package run
\* it: one request of every method against paths that fail each
\* combination of the checks of ServeHTTP
\* ------------------------------------------------------------------------

\* The server after a startup in which both menus were fetched.
InitServing ==
    /\ mainPc = "serving"
    /\ upMenu = [m \in MenuIds |-> Http(StatusOK, MenuBody(m), FALSE)]
    /\ wpc = [l \in Languages |-> "done"]
    /\ wsent = [l \in Languages |-> <<FetchMenuRequest(BaseURL, l)>>]
    /\ wres = [l \in Languages |->
                 <<FetchMenuResult(Http(StatusOK, MenuBody(FetchMenuId(l)), FALSE))>>]
    /\ results = <<>>
    /\ received = Len(languages)
    /\ Menus = [l \in Languages |-> IF l = "en" THEN 1 ELSE 2]
    /\ heap = <<NewMenuData(ItemsEn, BaseURL), NewMenuData(ItemsFr, BaseURL)>>
    /\ req = [n \in Requests |-> IdleRequest]

\* The methods of the requests: the three allowed ones and two others.
ValidationMethods == {"GET", "HEAD", "OPTIONS", "POST", "DELETE"}

\* strings.Repeat("a", k)
Filler(k) == [i \in 1..k |-> "a"]

\* The total lengths of the paths: short, the longest allowed, one longer.
PathLengths == {4, MaxURLLen, MaxURLLen + 1}

\* "/" followed by a's, then at most one forbidden character, then at most
\* one extension, of every total length of PathLengths; and two paths with
\* a "." that is not in their last element.
ValidationPaths ==
    {SLASH \o Filler(len - 1 - Len(bad) - Len(ext)) \o bad \o ext :
        len \in PathLengths,
        bad \in {EMPTY} \cup {<<c>> : c \in InvalidChars},
        ext \in {EMPTY, <<".">>, <<".", "x">>}}
    \cup {<<"/", "a", ".", "b", "/">>, <<"/", "a", ".", "b", "/", "c">>}

NextValidation ==
    \/ \E method \in ValidationMethods, path \in ValidationPaths :
            ServeHTTP(1, method, path)
    \/ \E resp \in PageResponses : PageResponse(1, resp)

SpecValidation == InitServing /\ [][NextValidation]_vars

\* ------------------------------------------------------------------------
\* NewMenuData on its own: the receive loop of NewWordPressClient holds one
\* result, whose item list is any list of the bounded input sets
\* ------------------------------------------------------------------------

\* A WordPressMenuItem as json.Unmarshal fills it.
MenuItem(id, parent, url) ==
    [ID |-> id, Title |-> "Item " \o ToString(id), Parent |-> parent, Url |-> url]

\* The database ids of the items, and a parent id no item has.
ItemIds == 1..MaxItems
AbsentParent == MaxItems + 1
ParentIds == {0} \cup ItemIds \cup {AbsentParent}

\* Item lists of every length k up to MaxItems, of distinct ids in every
\* order, each item with every parent: none, any id of ItemIds (its own
\* included, and ids not in the list) and an id no item has.
IdOrders(k) ==
    {f \in [1..k -> ItemIds] : \A i, j \in 1..k : i # j => f[i] # f[j]}

StructureList(k, ids, parents) ==
    [i \in 1..k |-> MenuItem(ids[i], parents[i], BaseURL \o <<"/", "m">>)]

\* What item URLs are put together from: the base origin, a path, and the
\* two halves of a text that becomes the base origin when the base origin
\* is cut out between them.
UrlPieces == {BaseURL, <<"/", "a">>, <<"/", "/", "w">>, <<"p">>}

RECURSIVE Concat(_)
Concat(pieces) ==
    IF pieces = <<>> THEN <<>> ELSE Head(pieces) \o Concat(Tail(pieces))

MenuUrls == {Concat(ps) : ps \in SeqsUpTo(UrlPieces, MaxUrlPieces)}

\* A top-level item with one child; one of the two has any URL of MenuUrls.
UrlLists ==
    {<<MenuItem(1, 0, u), MenuItem(2, 1, BaseURL \o <<"/", "m">>)>> : u \in MenuUrls}
    \cup {<<MenuItem(1, 0, BaseURL \o <<"/", "m">>), MenuItem(2, 1, u)>> : u \in MenuUrls}

\* The body of an upstream answer that lists the given items.
MenuItemsBody(items) ==
    [text |-> "[items]", json |-> [kind |-> "array", elems |-> items]]

\* The receive loop before its first iteration: the goroutine of "en" has
\* sent its result, which holds the given items; the one of "fr" is still
\* waiting for upstream.
ResultWaiting(items) ==
    /\ mainPc = "recv"
    /\ upMenu = [m \in MenuIds |->
                   IF m = MenuIdEn
                   THEN Http(StatusOK, MenuItemsBody(items), FALSE)
                   ELSE Timeout]
    /\ wres = [l \in Languages |->
                 IF l = "en"
                 THEN <<FetchMenuResult(Http(StatusOK, MenuItemsBody(items), FALSE))>>
                 ELSE <<>>]
    /\ results = <<[Lang |-> "en", MenuItems |-> <<items>>, Err |-> <<>>]>>
    /\ wpc = [l \in Languages |-> IF l = "en" THEN "done" ELSE "waiting"]
    /\ wsent = [l \in Languages |-> <<FetchMenuRequest(BaseURL, l)>>]
    /\ received = 0
    /\ Menus = <<>>
    /\ heap = <<>>
    /\ req = [n \in Requests |-> IdleRequest]

InitMenu ==
    \/ \E k \in 0..MaxItems :
          \E ids \in IdOrders(k), parents \in [1..k -> ParentIds] :
              ResultWaiting(StructureList(k, ids, parents))
    \/ \E items \in UrlLists : ResultWaiting(items)

NextMenu == ReceiveResult

SpecMenu == InitMenu /\ [][NextMenu]_vars

\* ------------------------------------------------------------------------
\* NewPageData on its own: one request whose upstream answer is a page of
\* any language code
\* ------------------------------------------------------------------------

\* The language codes upstream reports: the two supported ones, two other
\* languages, none, and a supported one in upper case.
PageLangs == {"en", "fr", "de", "es", "", "EN"}

\* A WordPressPage as json.Unmarshal fills it.
PageInput(lang, slug, slugEn, slugFr) ==
    [ID |-> 20, Slug |-> slug, SlugEn |-> slugEn, SlugFr |-> slugFr,
     Lang |-> lang, Modified |-> <<"1", "T", "2">>, Title |-> <<"P">>,
     Content |-> <<"c">> \o BaseURL]

PageInputs ==
    {PageInput(lang, slug, slugEn, slugFr) :
        lang \in PageLangs,
        slug \in {<<"a">>, HOME},
        slugEn \in {<<"a">>, EMPTY},
        slugFr \in {<<"b">>, EMPTY}}

PageDataPaths == {<<"/", "a">>, <<"/", "f", "r", "/", "b">>}

\* A page of a given slug and rendered content; its title holds the base
\* origin too.
ContentPage(lang, slug, content) ==
    [ID |-> 21, Slug |-> slug, SlugEn |-> <<"a">>, SlugFr |-> <<"b">>,
     Lang |-> lang, Modified |-> <<"1", "T", "2">>,
     Title |-> <<"T">> \o BaseURL, Content |-> content]

\* Rendered contents: put together from the pieces item URLs are made of.
PageContents == {Concat(ps) : ps \in SeqsUpTo(UrlPieces, MaxUrlPieces)}

\* Slugs with "home" as the whole, at the start, inside, cut short and
\* absent.
BreadcrumbSlugs ==
    {HOME, HOME_FR, <<"x">> \o HOME \o <<"y">>, <<"h", "o", "m">>, <<"a">>, EMPTY}

ContentPages ==
    {ContentPage(lang, <<"a">>, c) : lang \in {"en", "fr"}, c \in PageContents}
    \cup {ContentPage(lang, s, <<"c">>) : lang \in {"en", "fr"}, s \in BreadcrumbSlugs}

NextPageData ==
    \/ \E path \in PageDataPaths : ServeHTTP(1, "GET", path)
    \/ \E page \in PageInputs \cup ContentPages :
            PageResponse(1, Http(StatusOK, PagesBody(<<page>>), FALSE))

SpecPageData == InitServing /\ [][NextPageData]_vars

\* ------------------------------------------------------------------------
\* Item lists upstream may answer with whatever their ids
\* ------------------------------------------------------------------------

\* Item lists up to MaxItems long whose ids may repeat: each item has one of
\* two ids and any parent: none, either id (its own included) or an id no
\* item has.
RepeatableIds == 1..2
RepeatableParents == {0} \cup RepeatableIds \cup {AbsentParent}

InitMenuAnyIds ==
    \E k \in 0..MaxItems :
        \E ids \in [1..k -> RepeatableIds], parents \in [1..k -> RepeatableParents] :
            ResultWaiting(StructureList(k, ids, parents))

SpecMenuAnyIds == InitMenuAnyIds /\ [][NextMenu]_vars

\* ------------------------------------------------------------------------
\* NewWordPressClient alone, under fair scheduling
\* ------------------------------------------------------------------------

\* The steps of NewWordPressClient and of its two goroutines.
NextStartup ==
    \/ NewWordPressClient
    \/ \E lang \in Languages : FetchMenu(lang)
    \/ \E lang \in Languages : FetchMenuReturn(lang)
    \/ \E lang \in Languages : SendResult(lang)
    \/ ReceiveResult

\* The Go scheduler runs every goroutine that can take a step, and
\* client.Do returns after three seconds at the latest, so no step that
\* stays possible is put off for ever.
FairStartup ==
    /\ WF_vars(NewWordPressClient)
    /\ \A lang \in Languages :
          /\ WF_vars(FetchMenu(lang))
          /\ WF_vars(FetchMenuReturn(lang))
          /\ WF_vars(SendResult(lang))
    /\ WF_vars(ReceiveResult)

SpecStartup == Init /\ [][NextStartup]_vars /\ FairStartup

\* ========================================================================
\* Properties
\* ========================================================================

\* The menu id configured for a language.
ConfiguredMenuId(lang) == IF lang = "en" THEN MenuIdEn ELSE MenuIdFr

\* The upstream answer to the menu fetch of a language.
MenuAnswer(lang) == upMenu[ConfiguredMenuId(lang)]

\* A menu fetch fails on a transport error or timeout, a status other than
\* 200, a body that cannot be read or a body that is no JSON array.
FetchFails(answer) ==
    \/ answer.kind = "transport"
    \/ answer.status # 200
    \/ answer.readErr
    \/ answer.body.json.kind \in {"syntax", "type"}

\* The items a successful answer carries.
AnswerItems(answer) ==
    IF answer.body.json.kind = "array" THEN answer.body.json.elems ELSE <<>>

\* NewWordPressClient has returned its client.
ClientReturned == received = Len(languages)

\* NewWordPressClient ended the process.
ClientAborted == mainPc = "fatal" /\ received < Len(languages)

\* C1: when the menu fetch of either language fails, NewWordPressClient never
\* returns a client and no page request is ever served, whichever result
\* is received first and whether or not the other fetch succeeded.
C1_FailedFetchIsFatal ==
    (\E lang \in Languages : FetchFails(MenuAnswer(lang)))
        => /\ ~ClientReturned
           /\ mainPc \notin {"returned", "serving"}
           /\ \A n \in Requests : req[n].pc = "idle"

\* The English menu was fetched, received first and stored, and the failed
\* French result then ended the process.
C1_Witness ==
    /\ mainPc = "fatal"
    /\ received = 1
    /\ DOMAIN Menus = {"en"}
    /\ ~FetchFails(MenuAnswer("en"))
    /\ FetchFails(MenuAnswer("fr"))

\* C2: whenever NewWordPressClient has returned, each language's goroutine
\* has issued exactly one menu-items request, for that language's configured
\* menu id, and has completed; and Menus holds, for "en" and for "fr", the
\* NewMenuData of the items fetched for that same language.
C2_BothMenusCached ==
    ClientReturned
        => /\ DOMAIN Menus = {"en", "fr"}
           /\ \A lang \in {"en", "fr"} :
                /\ wpc[lang] = "done"
                /\ Len(wsent[lang]) = 1
                /\ wsent[lang][1].url.endpoint = "/wp-json/wp/v2/menu-items"
                /\ wsent[lang][1].url.menus = ConfiguredMenuId(lang)
                /\ Menus[lang] \in 1..Len(heap)
                /\ heap[Menus[lang]] = NewMenuData(AnswerItems(MenuAnswer(lang)), BaseURL)

\* The client has returned with two different, non-empty menus cached.
C2_Witness ==
    /\ mainPc = "returned"
    /\ heap[Menus["en"]].Items # <<>>
    /\ heap[Menus["fr"]].Items # <<>>
    /\ heap[Menus["en"]] # heap[Menus["fr"]]

\* C3: the outcome of NewWordPressClient is decided by the two fetch results
\* alone, not by the order in which they are received: it aborts only if
\* some fetch failed, and it returns only if none failed, with a cache whose
\* content per language is the same in every order.
C3_OutcomeIndependentOfOrder ==
    /\ ClientAborted => \E lang \in Languages : FetchFails(MenuAnswer(lang))
    /\ ClientReturned
          => /\ \A lang \in Languages : ~FetchFails(MenuAnswer(lang))
             /\ [lang \in DOMAIN Menus |-> heap[Menus[lang]]]
                  = [lang \in Languages |->
                        NewMenuData(AnswerItems(MenuAnswer(lang)), BaseURL)]

\* The client has returned after the French result was received first.
C3_Witness ==
    /\ ClientReturned
    /\ Menus["fr"] = 1
    /\ Menus["en"] = 2
    /\ heap[1] # heap[2]

\* The set of values of a function.
Range(f) == {f[x] : x \in DOMAIN f}

\* C4: once NewWordPressClient has returned, no step changes the Menus map
\* or any MenuData it points to, however many page requests are in flight;
\* and no step of a fetch goroutine (FetchMenu) changes them either. The
\* Menu of every PageData is a pointer held by the cache, not a copy.
C4_CacheNeverWritten ==
    [][/\ ClientReturned
          => /\ Menus' = Menus
             /\ heap' = heap
             /\ \A n \in Requests :
                  req'[n].data # <<>> => req'[n].data[1].Menu \in Range(Menus)
       /\ (wpc' # wpc \/ wsent' # wsent \/ wres' # wres)
          => Menus' = Menus /\ heap' = heap]_vars

\* One request has been rendered with a cached menu while another is still
\* waiting for upstream.
C4_Witness ==
    \E n, m \in Requests :
        /\ n # m
        /\ req[n].pc = "done"
        /\ req[n].data # <<>>
        /\ req[n].data[1].Menu = Menus["fr"]
        /\ req[m].pc = "fetching"

\* The number of upstream requests a page request has issued.
Fetches(n) == Len(req[n].sent)

\* No request issued for a page request is a menu-items request, and the
\* menu-items requests are the two of the start.
OnlyPagesRequests ==
    /\ \A n \in Requests : \A i \in 1..Fetches(n) :
            req[n].sent[i].url.endpoint = "/wp-json/wp/v2/pages"
    /\ \A lang \in Languages : Len(wsent[lang]) <= 1

\* C5 as stated: a request that passes the validation of ServeHTTP has
\* issued exactly one upstream pages request, a rejected one none, and none
\* issues a menu-items request.
C5_OneFetchPerValidRequest ==
    /\ OnlyPagesRequests
    /\ \A n \in Requests :
          req[n].pc # "idle"
             => Fetches(n) = IF Rejection(req[n].method, req[n].path) = 0 THEN 1 ELSE 0

\* C5 as amended: a request that passes validation issues exactly one
\* upstream pages request when its upstream URL can be built, and none when
\* http.NewRequest refuses the URL (the path holds a control byte); a
\* rejected request issues none; no menu-items request is issued.
C5_OneFetchPerRequestBuilt ==
    /\ OnlyPagesRequests
    /\ \A n \in Requests :
          /\ req[n].pc = "idle" => Fetches(n) = 0
          /\ req[n].pc # "idle"
                => Fetches(n) = IF /\ Rejection(req[n].method, req[n].path) = 0
                                   /\ ~ContainsAny(req[n].path, {CTL})
                                THEN 1 ELSE 0

\* Two requests for the same path are done and each has fetched once: the
\* second did not find the first one's answer cached, and the one that timed
\* out did not try again.
C5_Witness ==
    \E n, m \in Requests :
        /\ n # m
        /\ req[n].pc = "done" /\ req[m].pc = "done"
        /\ req[n].path = req[m].path
        /\ req[n].resp = <<Timeout>>
        /\ Fetches(n) = 1 /\ Fetches(m) = 1

\* C10: a response whose status is not 200 makes FetchPage and FetchMenu
\* return an error that carries the status code and the body, and neither a
\* page nor an item list.
C10_Non200IsFailure ==
    /\ \A lang \in Languages :
          (/\ wres[lang] # <<>>
           /\ MenuAnswer(lang).kind = "http"
           /\ MenuAnswer(lang).status # 200)
             => /\ wres[lang][1].items = <<>>
                /\ Len(wres[lang][1].err) = 1
                /\ wres[lang][1].err[1].msg[2] = ToString(MenuAnswer(lang).status)
                /\ wres[lang][1].err[1].msg[4] = MenuAnswer(lang).body.text
    /\ \A n \in Requests :
          (/\ req[n].resp # <<>>
           /\ req[n].resp[1].kind = "http"
           /\ req[n].resp[1].status # 200)
             => /\ req[n].fetch[1].page = <<>>
                /\ Len(req[n].fetch[1].err) = 1
                /\ req[n].fetch[1].err[1].msg[2] = ToString(req[n].resp[1].status)
                /\ req[n].fetch[1].err[1].msg[4] = req[n].resp[1].body.text
                /\ req[n].data = <<>>

\* FetchMenu has returned for an answer 201 that carried a well-formed item
\* list.
C10_Witness ==
    \E lang \in Languages :
        /\ wres[lang] # <<>>
        /\ MenuAnswer(lang).kind = "http"
        /\ MenuAnswer(lang).status = 201
        /\ MenuAnswer(lang).body.json.kind = "array"
        /\ wres[lang][1].err # <<>>

\* ------------------------------------------------------------------------
\* FetchPage called directly (SpecDirect, SpecAnswers)
\* ------------------------------------------------------------------------

\* The direct call has sent its upstream request.
Issued == req[1].sent # <<>>

\* The URL of that request.
IssuedURL == req[1].sent[1].url

\* The other path of the pair (p, p followed by "/") the called path is in.
SlashSibling(p) ==
    IF Len(p) > 0 /\ p[Len(p)] = "/" THEN SubSeq(p, 1, Len(p) - 1)
    ELSE p \o <<"/">>

\* The called path and its sibling are a pair p, p/ with p not ending in "/".
IsSlashPair(p) ==
    LET q == SlashSibling(p)
        short == IF Len(q) < Len(p) THEN q ELSE p
    IN  Len(short) = 0 \/ short[Len(short)] # "/"

\* C6: a path that does not end in "/" and the same path followed by one
\* "/" are queried upstream with the same slug and the same language.
C6_TrailingSlashIgnored ==
    (Issued /\ IsSlashPair(req[1].path))
        => /\ IssuedURL.slug = FetchPageSlug(SlashSibling(req[1].path))
           /\ IssuedURL.lang = FetchPageLang(SlashSibling(req[1].path))
           /\ IssuedURL.query
                = FetchPageRequest(BaseURL, SlashSibling(req[1].path)).url.query

\* FetchPage("/f/") has queried the slug "f", as FetchPage("/f") does.
C6_Witness ==
    /\ Issued
    /\ req[1].path = <<"/", "f", "/">>
    /\ IssuedURL.slug = <<"f">>

\* C7: FetchPage("/") queries slug "home" with language "en" and
\* FetchPage("/fr") queries slug "home-fr" with language "fr".
C7_HomePages ==
    /\ (Issued /\ req[1].path = <<"/">>)
          => /\ IssuedURL.slug = <<"h", "o", "m", "e">>
             /\ IssuedURL.lang = "en"
             /\ IssuedURL.query = <<"s", "l", "u", "g", "=", "h", "o", "m", "e",
                                    "&", "l", "a", "n", "g", "=", "e", "n">>
    /\ (Issued /\ req[1].path = <<"/", "f", "r">>)
          => /\ IssuedURL.slug = <<"h", "o", "m", "e", "-", "f", "r">>
             /\ IssuedURL.lang = "fr"
             /\ IssuedURL.query = <<"s", "l", "u", "g", "=", "h", "o", "m", "e", "-",
                                    "f", "r", "&", "l", "a", "n", "g", "=", "f", "r">>

\* FetchPage("/fr") has sent its request.
C7_Witness ==
    /\ Issued
    /\ req[1].path = <<"/", "f", "r">>
    /\ IssuedURL.lang = "fr"

\* p without one trailing "/".
StripOneSlash(p) ==
    IF Len(p) > 0 /\ p[Len(p)] = "/" THEN SubSeq(p, 1, Len(p) - 1) ELSE p

\* The text between the first and the second "/" of p (or the end) is "fr".
SecondSegmentIsFr(p) ==
    \E i \in 1..Len(p) :
        /\ p[i] = "/"
        /\ \A j \in 1..(i - 1) : p[j] # "/"
        /\ Len(p) >= i + 2
        /\ p[i + 1] = "f"
        /\ p[i + 2] = "r"
        /\ (Len(p) = i + 2 \/ p[i + 3] = "/")

\* C8: the language FetchPage queries is "fr" exactly when the second
\* "/"-separated segment of the path, one trailing slash stripped, is "fr",
\* and "en" otherwise, also when "fr" is a later segment.
C8_LanguageFromSecondSegment ==
    Issued
        => /\ IssuedURL.lang
                = IF SecondSegmentIsFr(StripOneSlash(req[1].path)) THEN "fr" ELSE "en"
           /\ HasSuffix(IssuedURL.query,
                        <<"&", "l", "a", "n", "g", "=">>
                            \o (IF SecondSegmentIsFr(StripOneSlash(req[1].path))
                                THEN <<"f", "r">> ELSE <<"e", "n">>))

\* FetchPage("//fr"), whose third segment is "fr", has queried in English.
C8_Witness ==
    /\ Issued
    /\ req[1].path = <<"/", "/", "f", "r">>
    /\ IssuedURL.lang = "en"

\* The answer is a 200 whose body is the empty JSON array.
EmptyArrayAnswer(resp) ==
    /\ resp.kind = "http"
    /\ resp.status = 200
    /\ ~resp.readErr
    /\ resp.body.json.kind = "array"
    /\ resp.body.json.elems = <<>>

\* The answer is a transport, upstream-status, read or parse failure.
FailureAnswer(resp) ==
    \/ resp.kind = "transport"
    \/ resp.status # 200
    \/ resp.readErr
    \/ resp.body.json.kind \in {"syntax", "type"}

\* C9: for a 200 answer with an empty array FetchPage returns no page and
\* the error "page not found"; the error it returns for any transport,
\* status, read or parse failure (and for a URL it cannot build) has another
\* text, whatever status and body that answer carries.
C9_NotFoundDistinguished ==
    req[1].fetch # <<>>
        => /\ (req[1].resp # <<>> /\ EmptyArrayAnswer(req[1].resp[1]))
                 => /\ req[1].fetch[1].page = <<>>
                    /\ Len(req[1].fetch[1].err) = 1
                    /\ req[1].fetch[1].err[1].msg = <<"page not found">>
           /\ (req[1].resp = <<>> \/ FailureAnswer(req[1].resp[1]))
                 => /\ req[1].fetch[1].page = <<>>
                    /\ Len(req[1].fetch[1].err) = 1
                    /\ req[1].fetch[1].err[1].msg # <<"page not found">>

\* FetchPage has returned for a 200 answer with an empty array.
C9_Witness ==
    /\ req[1].fetch # <<>>
    /\ req[1].resp # <<>>
    /\ EmptyArrayAnswer(req[1].resp[1])
    /\ req[1].fetch[1].err # <<>>

\* ------------------------------------------------------------------------
\* Credentials and what the end user is shown
\* ------------------------------------------------------------------------

\* Every upstream request sent so far, by the menu goroutines and for the
\* inbound requests.
MenuRequestsSent == UNION {Range(wsent[l]) : l \in Languages}
PageRequestsSent == UNION {Range(req[n].sent) : n \in Requests}

\* C11: every menu-items request carries "Authorization: Basic" followed
\* by the encoded user:pass, and no pages request carries an Authorization
\* header.
C11_CredentialOnMenuRequestsOnly ==
    /\ \A m \in MenuRequestsSent :
          /\ m.url.endpoint = "/wp-json/wp/v2/menu-items"
          /\ "Authorization" \in DOMAIN m.header
          /\ m.header.Authorization = <<"Basic ", "base64(user:pass)">>
    /\ \A p \in PageRequestsSent :
          /\ p.url.endpoint = "/wp-json/wp/v2/pages"
          /\ "Authorization" \notin DOMAIN p.header

\* Both menu requests and a pages request have been sent.
C11_Witness ==
    /\ \A l \in Languages : wsent[l] # <<>>
    /\ \E n \in Requests : req[n].sent # <<>>

\* What the end user receives for the request n.
Response(n) ==
    [status |-> req[n].status, body |-> req[n].body, headers |-> req[n].headers]

\* The request n is answered and FetchPage returned an error for it.
FetchFailed(n) ==
    /\ req[n].pc = "done"
    /\ req[n].fetch # <<>>
    /\ req[n].fetch[1].err # <<>>

\* C12: whatever status and body the failed upstream fetch of a page
\* request carried, the end user receives status 500 with the text "Error
\* fetching page content" and no template is rendered; the responses to any
\* two such requests are the same.
C12_FailureDetailsNotLeaked ==
    \A n, m \in Requests :
        (FetchFailed(n) /\ FetchFailed(m))
            => /\ Response(n) = Response(m)
               /\ req[n].status = 500
               /\ req[n].body = "Error fetching page content"
               /\ req[n].data = <<>>

\* Two requests are answered whose upstream answers were failures with
\* different statuses and different bodies.
C12_Witness ==
    /\ FetchFailed(1) /\ FetchFailed(2)
    /\ req[1].resp # <<>> /\ req[2].resp # <<>>
    /\ req[1].resp[1].kind = "http" /\ req[2].resp[1].kind = "http"
    /\ req[1].resp[1].status # req[2].resp[1].status
    /\ req[1].resp[1].body.text # req[2].resp[1].body.text

\* The request n is answered and upstream had answered its pages request
\* with a well-formed empty result set.
AnsweredNotFound(n) ==
    /\ req[n].pc = "done"
    /\ req[n].resp # <<>>
    /\ EmptyArrayAnswer(req[n].resp[1])

\* The request n is answered and its pages request had met a transport,
\* upstream-status or parse failure.
AnsweredSystemError(n) ==
    /\ req[n].pc = "done"
    /\ req[n].resp # <<>>
    /\ FailureAnswer(req[n].resp[1])

\* C13 as stated: the response to a request whose page was not found
\* differs from the response to a request that met a system error.
C13_NotFoundShownAsAbsent ==
    \A n, m \in Requests :
        (AnsweredNotFound(n) /\ AnsweredSystemError(m))
            => <<req[n].status, req[n].body>> # <<req[m].status, req[m].body>>

\* C13: a request whose page was not found is answered like one that met
\* a system error: status 500, "Error fetching page content", no template
\* rendered.
C13_NotFoundAnsweredAsError ==
    \A n \in Requests :
        AnsweredNotFound(n)
            => /\ req[n].status = 500
               /\ req[n].body = "Error fetching page content"
               /\ req[n].data = <<>>
               /\ \A m \in Requests :
                     AnsweredSystemError(m) => Response(m) = Response(n)

\* One request was answered after an empty result set, the other after an
\* upstream timeout.
C13_Witness ==
    \E n, m \in Requests :
        /\ AnsweredNotFound(n)
        /\ AnsweredSystemError(m)
        /\ req[m].resp[1].kind = "transport"

\* ------------------------------------------------------------------------
\* Request validation (SpecValidation)
\* ------------------------------------------------------------------------

\* The last "/"-separated element of p holds a ".".
HasFileExtension(p) ==
    \E i \in 1..Len(p) : p[i] = "." /\ \A j \in (i + 1)..Len(p) : p[j] # "/"

\* p holds one of  < > " ' % \ backquote ^ { } |
HasForbiddenCharacter(p) ==
    \E i \in 1..Len(p) :
        p[i] \in {"<", ">", "\"", "'", "%", "\\", "\\x60", "^", "{", "}", "|"}

\* The status the ordered checks give, 0 when all four pass.
ExpectedRejection(method, p) ==
    IF method \notin {"GET", "HEAD", "OPTIONS"} THEN 405
    ELSE IF HasFileExtension(p) THEN 404
    ELSE IF HasForbiddenCharacter(p) THEN 400
    ELSE IF Len(p) > 255 THEN 414
    ELSE 0

\* handlePage was called for the request n: FetchPage has sent its request
\* or has returned.
HandledAsPage(n) == req[n].sent # <<>> \/ req[n].fetch # <<>>

\* C14: a request is answered with the status of the first failing check
\* in the order method (405), file extension (404), forbidden character
\* (400), length above 255 (414), without being handled as a page request;
\* a request that passes all four, among them HEAD and OPTIONS requests and
\* a path of exactly 255 bytes, is handled as a page request.
C14_FirstFailingCheckDecides ==
    \A n \in Requests :
        req[n].pc # "idle"
            => IF ExpectedRejection(req[n].method, req[n].path) # 0
               THEN /\ req[n].pc = "done"
                    /\ req[n].status = ExpectedRejection(req[n].method, req[n].path)
                    /\ ~HandledAsPage(n)
               ELSE /\ HandledAsPage(n)
                    /\ req[n].pc = "done" => req[n].status \in {200, 500}

\* A request was refused with 404 although its path also holds a forbidden
\* character and is longer than 255 bytes.
C14_Witness ==
    /\ req[1].pc = "done"
    /\ req[1].status = 404
    /\ HasForbiddenCharacter(req[1].path)
    /\ Len(req[1].path) > 255

\* ------------------------------------------------------------------------
\* The SecurityHeaders middleware around the page handler (SpecValidation)
\* ------------------------------------------------------------------------

\* The status the page handler writes for the answered request n.
HandlerStatus(n) ==
    IF ExpectedRejection(req[n].method, req[n].path) # 0
    THEN ExpectedRejection(req[n].method, req[n].path)
    ELSE IF req[n].fetch[1].err # <<>> THEN 500
    ELSE IF req[n].body = "layout.html" THEN 200
    ELSE 500

\* C15: every response carries Strict-Transport-Security, X-Frame-Options,
\* X-Content-Type-Options and Referrer-Policy with their fixed values,
\* whatever status the page handler answers with; the status is the one the
\* handler wrote and the Content-Type the handler set for an error text is
\* still there, and no other header was added.
C15_SecurityHeadersOnEveryResponse ==
    \A n \in Requests :
        req[n].pc = "done"
            => /\ req[n].headers.StrictTransportSecurity
                    = "max-age=31536000; includeSubDomains; preload"
               /\ req[n].headers.XFrameOptions = "SAMEORIGIN"
               /\ req[n].headers.XContentTypeOptions = "nosniff"
               /\ req[n].headers.ReferrerPolicy = "no-referrer-when-downgrade"
               /\ req[n].status = HandlerStatus(n)
               /\ IF req[n].status = 200
                  THEN DOMAIN req[n].headers
                         = {"StrictTransportSecurity", "XFrameOptions",
                            "XContentTypeOptions", "ReferrerPolicy"}
                  ELSE /\ DOMAIN req[n].headers
                            = {"StrictTransportSecurity", "XFrameOptions",
                               "XContentTypeOptions", "ReferrerPolicy", "ContentType"}
                       /\ req[n].headers.ContentType = "text/plain; charset=utf-8"

\* A request was refused with 414 and its response carries the headers of
\* the middleware and of the handler.
C15_Witness ==
    /\ req[1].pc = "done"
    /\ req[1].status = 414
    /\ req[1].headers.XFrameOptions = "SAMEORIGIN"
    /\ req[1].headers.ContentType = "text/plain; charset=utf-8"

\* ------------------------------------------------------------------------
\* NewMenuData (SpecMenu)
\* ------------------------------------------------------------------------

\* The item list handed to NewMenuData and, once built, the MenuData.
MenuInput == upMenu["123"].body.json.elems
MenuBuilt == heap # <<>>

\* The parent/child pairs among the nodes NewMenuData allocated.
ParentChild(md) ==
    {pc \in (DOMAIN md.nodes) \X (DOMAIN md.nodes) :
        pc[2] \in Range(md.nodes[pc[1]].Children)}

\* The ids of the items of a list that are in S, in the order of the list.
RECURSIVE IdsIn(_, _)
IdsIn(items, S) ==
    IF items = <<>> THEN <<>>
    ELSE (IF Head(items).ID \in S THEN <<Head(items).ID>> ELSE <<>>)
            \o IdsIn(Tail(items), S)

\* Roots and siblings stand in the order of their items in the list.
SiblingsInInputOrder(md, items) ==
    /\ md.Items = IdsIn(items, Range(md.Items))
    /\ \A p \in DOMAIN md.nodes :
          md.nodes[p].Children = IdsIn(items, Range(md.nodes[p].Children))

\* The nodes of the forest: the top-level items and all their descendants.
RECURSIVE Descendants(_, _)
Descendants(md, S) ==
    LET next == S \cup UNION {Range(md.nodes[id].Children) : id \in S}
    IN  IF next = S THEN S ELSE Descendants(md, next)

ForestNodes(md) == Descendants(md, Range(md.Items))

\* The items of a list in the order of their ids.
SortedById(items) ==
    [i \in 1..Len(items) |->
        CHOOSE x \in Range(items) :
            Cardinality({y \in Range(items) : y.ID < x.ID}) = i - 1]

\* C16: whatever the order of an item list, also one in which a child
\* precedes its parent, NewMenuData gives it the parent/child pairs and the
\* set of top-level items that it gives the same items in the order of
\* their ids, so every permutation of the items has the same ones;
\* top-level items and siblings stand in the order of the input.
C16_OrderIndependentShape ==
    MenuBuilt
        => /\ SiblingsInInputOrder(heap[1], MenuInput)
           /\ ParentChild(heap[1])
                = ParentChild(NewMenuData(SortedById(MenuInput), BaseURL))
           /\ Range(heap[1].Items)
                = Range(NewMenuData(SortedById(MenuInput), BaseURL).Items)

\* A list in which a child precedes its parent was built, and the child is
\* among the children of that parent.
C16_Witness ==
    /\ MenuBuilt
    /\ \E i, j \in 1..Len(MenuInput) :
          /\ i < j
          /\ MenuInput[i].Parent = MenuInput[j].ID
          /\ MenuInput[j].Parent = 0
          /\ MenuInput[i].ID \in Range(heap[1].nodes[MenuInput[j].ID].Children)

\* The item at position i declares a parent that no other item has as id.
ParentMissing(items, i) ==
    /\ items[i].Parent # 0
    /\ \A j \in 1..Len(items) : j # i => items[j].ID # items[i].Parent

\* C17: an item whose nonzero parent id is the id of no other item of the
\* list is not a top-level item, not a child of any other node, and not a
\* node of the forest under the top-level items.
C17_ItemsWithoutParentDropped ==
    MenuBuilt
        => \A i \in 1..Len(MenuInput) :
              ParentMissing(MenuInput, i)
                  => /\ MenuInput[i].ID \notin Range(heap[1].Items)
                     /\ \A p \in DOMAIN heap[1].nodes \ {MenuInput[i].ID} :
                           MenuInput[i].ID \notin Range(heap[1].nodes[p].Children)
                     /\ MenuInput[i].ID \notin ForestNodes(heap[1])

\* A list with a top-level item and an item whose parent no item has was
\* built.
C17_Witness ==
    /\ MenuBuilt
    /\ heap[1].Items # <<>>
    /\ \E i \in 1..Len(MenuInput) :
          /\ ParentMissing(MenuInput, i)
          /\ MenuInput[i].Parent # MenuInput[i].ID

\* The base origin stands in u from position i on.
BaseAt(u, i) ==
    /\ i + 3 <= Len(u)
    /\ u[i] = "/" /\ u[i + 1] = "/" /\ u[i + 2] = "w" /\ u[i + 3] = "p"

\* u without the four characters from position i on.
CutAt(u, i) == SubSeq(u, 1, i - 1) \o SubSeq(u, i + 4, Len(u))

\* C18 as stated: a URL that begins with the base origin loses that one
\* leading occurrence, every other URL is left unchanged.
C18_LeadingBaseStripped ==
    MenuBuilt
        => \A i \in 1..Len(MenuInput) :
              heap[1].nodes[MenuInput[i].ID].Url
                  = IF BaseAt(MenuInput[i].Url, 1)
                    THEN CutAt(MenuInput[i].Url, 1)
                    ELSE MenuInput[i].Url

\* C18: the URL of a node is its item's URL without the first occurrence
\* of the base origin, wherever that occurrence is; nothing else is removed
\* and a URL without the base origin is unchanged.
C18_FirstBaseOccurrenceRemoved ==
    MenuBuilt
        => \A i \in 1..Len(MenuInput) :
              LET u == MenuInput[i].Url
                  v == heap[1].nodes[MenuInput[i].ID].Url
              IN  IF \E k \in 1..Len(u) : BaseAt(u, k)
                  THEN \E k \in 1..Len(u) :
                          /\ BaseAt(u, k)
                          /\ \A j \in 1..(k - 1) : ~BaseAt(u, j)
                          /\ v = CutAt(u, k)
                  ELSE v = u

\* An item whose URL holds the base origin after "/a" was built and its
\* node's URL is "/a".
C18_Witness ==
    /\ MenuBuilt
    /\ \E i \in 1..Len(MenuInput) :
          /\ MenuInput[i].Url = <<"/", "a", "/", "/", "w", "p">>
          /\ heap[1].nodes[MenuInput[i].ID].Url = <<"/", "a">>

\* C19: no node of the forest has a URL that holds the base origin.
C19_NoBaseUrlLeft ==
    MenuBuilt
        => \A id \in ForestNodes(heap[1]) :
              \A k \in 1..Len(heap[1].nodes[id].Url) :
                  ~BaseAt(heap[1].nodes[id].Url, k)

\* ------------------------------------------------------------------------
\* NewPageData (SpecPageData)
\* ------------------------------------------------------------------------

\* "en" and "fr" stand for themselves, every other code for "en".
NormalizedLang(code) == IF code = "fr" THEN "fr" ELSE "en"

\* C20: the language fields of a view model follow the normalized language
\* of its page: English gives Lang "en", LangSwapPath "/fr/", LangSwapSlug
\* the page's French slug, Home "/" and the English site name; French gives
\* Lang "fr", LangSwapPath "/", LangSwapSlug the page's English slug, Home
\* "/fr/" and the French site name.
C20_FieldsFollowNormalizedLang ==
    \A n \in Requests :
        req[n].data # <<>>
            => LET page == req[n].fetch[1].page[1]
                   data == req[n].data[1]
               IN  IF NormalizedLang(page.Lang) = "en"
                   THEN /\ data.Lang = "en"
                        /\ data.LangSwapPath = <<"/", "f", "r", "/">>
                        /\ data.LangSwapSlug = page.SlugFr
                        /\ data.Home = <<"/">>
                        /\ data.SiteName = "Site"
                   ELSE /\ data.Lang = "fr"
                        /\ data.LangSwapPath = <<"/">>
                        /\ data.LangSwapSlug = page.SlugEn
                        /\ data.Home = <<"/", "f", "r", "/">>
                        /\ data.SiteName = "Site FR"

\* A view model was built for a page whose language is "de" and whose two
\* slugs differ.
C20_Witness ==
    /\ req[1].data # <<>>
    /\ req[1].fetch[1].page[1].Lang = "de"
    /\ req[1].fetch[1].page[1].SlugEn # req[1].fetch[1].page[1].SlugFr
    /\ req[1].data[1].Lang = "en"

\* ------------------------------------------------------------------------
\* Content, title and breadcrumb of the view model (SpecPageData)
\* ------------------------------------------------------------------------

\* u with every occurrence of the base origin cut out, read from the left.
RECURSIVE WithoutBase(_)
WithoutBase(u) ==
    IF u = <<>> THEN <<>>
    ELSE IF BaseAt(u, 1) THEN WithoutBase(SubSeq(u, 5, Len(u)))
    ELSE <<u[1]>> \o WithoutBase(SubSeq(u, 2, Len(u)))

\* C21: the content of a view model is the rendered content of its page
\* with every occurrence of the base origin deleted, and its title is the
\* page's title unchanged.
C21_ContentWithoutBaseTitleKept ==
    \A n \in Requests :
        req[n].data # <<>>
            => /\ req[n].data[1].Content = WithoutBase(req[n].fetch[1].page[1].Content)
               /\ req[n].data[1].Title = req[n].fetch[1].page[1].Title

\* A view model was built for a page whose content holds the base origin
\* twice and whose title holds it as well.
C21_Witness ==
    /\ req[1].data # <<>>
    /\ req[1].fetch[1].page[1].Content
          = <<"/", "/", "w", "p", "/", "a", "/", "/", "w", "p">>
    /\ req[1].data[1].Content = <<"/", "a">>
    /\ req[1].data[1].Title = <<"T", "/", "/", "w", "p">>

\* "home" stands somewhere in the slug.
HoldsHome(slug) ==
    \E i \in 1..Len(slug) :
        /\ i + 3 <= Len(slug)
        /\ slug[i] = "h" /\ slug[i + 1] = "o" /\ slug[i + 2] = "m" /\ slug[i + 3] = "e"

\* C22: the breadcrumb flag of a view model is false exactly when the slug
\* of its page holds "home", whatever the language of the page.
C22_BreadcrumbUnlessHome ==
    \A n \in Requests :
        req[n].data # <<>>
            => (req[n].data[1].ShowBreadcrumb
                    <=> ~HoldsHome(req[n].fetch[1].page[1].Slug))

\* A view model without breadcrumb was built for a French page whose slug
\* holds "home" in its middle.
C22_Witness ==
    /\ req[1].data # <<>>
    /\ req[1].fetch[1].page[1].Slug = <<"x", "h", "o", "m", "e", "y">>
    /\ req[1].fetch[1].page[1].Lang = "fr"
    /\ ~req[1].data[1].ShowBreadcrumb

\* ------------------------------------------------------------------------
\* The menu of the view model (Spec)
\* ------------------------------------------------------------------------

\* C23: the menu of a view model is the cached forest of the view model's
\* language; a page whose language has no cached forest gets the English
\* one, the language its view model falls back to.
C23_MenuOfViewModelLanguage ==
    \A n \in Requests :
        req[n].data # <<>>
            => /\ req[n].data[1].Lang \in DOMAIN Menus
               /\ req[n].data[1].Menu = Menus[req[n].data[1].Lang]
               /\ req[n].fetch[1].page[1].Lang \notin DOMAIN Menus
                    => req[n].data[1].Menu = Menus["en"]

\* Two view models were built, one for a French page and one for a page in
\* a language without menu, and they hold different forests.
C23_Witness ==
    /\ req[1].data # <<>> /\ req[2].data # <<>>
    /\ req[1].fetch[1].page[1].Lang = "fr"
    /\ req[2].fetch[1].page[1].Lang = "de"
    /\ req[1].data[1].Menu = Menus["fr"]
    /\ req[2].data[1].Menu = Menus["en"]
    /\ heap[req[1].data[1].Menu] # heap[req[2].data[1].Menu]

\* ------------------------------------------------------------------------
\* The forest as a structure (SpecMenu, SpecMenuAnyIds)
\* ------------------------------------------------------------------------

\* The item a node was made from: the last item of the list with its id,
\* the one whose title and URL the node carries.
NodeItem(items, id) ==
    items[CHOOSE i \in 1..Len(items) :
            /\ items[i].ID = id
            /\ \A j \in (i + 1)..Len(items) : items[j].ID # id]

\* The nodes of the tree below the top-level item r, r included.
TreeOf(md, r) == Descendants(md, {r})

\* C24: every node reachable from the top-level items has the parent id 0
\* or the id of another node of its tree.
C24_ReachableNodesHaveParentInTree ==
    MenuBuilt
        => \A r \in Range(heap[1].Items) :
              \A id \in TreeOf(heap[1], r) :
                  LET parent == NodeItem(MenuInput, id).Parent
                  IN  \/ parent = 0
                      \/ parent # id /\ parent \in TreeOf(heap[1], r)

\* The places a node stands at: among the top-level items and in the
\* children of the nodes reachable from them.
Places(md, id) ==
    {<<0, i>> : i \in {j \in 1..Len(md.Items) : md.Items[j] = id}}
    \cup UNION {{<<p, i>> : i \in {j \in 1..Len(md.nodes[p].Children) :
                                      md.nodes[p].Children[j] = id}} :
                p \in ForestNodes(md)}

\* C25: what is reachable from the top-level items is a finite forest: no
\* node is reachable from itself through children, and no node stands at
\* more than one place among the top-level items and the children.
C25_ReachableStructureIsForest ==
    MenuBuilt
        => \A id \in ForestNodes(heap[1]) :
              /\ id \notin Descendants(heap[1], Range(heap[1].nodes[id].Children))
              /\ Cardinality(Places(heap[1], id)) <= 1

\* ------------------------------------------------------------------------
\* The French home page and the language of its query (SpecDirect)
\* ------------------------------------------------------------------------

\* C26: whenever FetchPage queries the slug "home-fr", which no path of the
\* bounded set spells out and so stands for a last segment "fr", it queries
\* it in the language "fr".
C26_FrenchHomeQueriedInFrench ==
    (Issued /\ IssuedURL.slug = HOME_FR) => IssuedURL.lang = "fr"

\* ------------------------------------------------------------------------
\* Dotted slugs (SpecValidation)
\* ------------------------------------------------------------------------

\* C27: the slug of every request that ServeHTTP lets through to upstream
\* has no "." in it.
C27_NoDotInSlugSent ==
    \A n \in Requests :
        \A i \in 1..Len(req[n].sent) :
            \A k \in 1..Len(req[n].sent[i].url.slug) :
                req[n].sent[i].url.slug[k] # "."

\* ------------------------------------------------------------------------
\* The language of the view model and the language queried (Spec)
\* ------------------------------------------------------------------------

\* C28 as stated: the language of a view model is the language FetchPage
\* derived from the path and queried, whatever code the page carries.
C28_ViewModelInQueriedLanguage ==
    \A n \in Requests :
        req[n].data # <<>> => req[n].data[1].Lang = req[n].sent[1].url.lang

\* C28, amended: the language of a view model, and with it the menu, the
\* home path and the site name, is the one of the code the fetched page
\* carries ("en" unless that code is "fr"); it is the language queried
\* when the page carries the code queried, and may differ from it when
\* not.
C28_ViewModelInLanguageOfPage ==
    \A n \in Requests :
        req[n].data # <<>>
            => LET page   == req[n].fetch[1].page[1]
                   data   == req[n].data[1]
                   lang   == NormalizedLang(page.Lang)
                   fr     == lang = "fr"
               IN  /\ data.Lang = lang
                   /\ data.Menu = Menus[lang]
                   /\ data.Home = IF fr THEN <<"/", "f", "r", "/">> ELSE <<"/">>
                   /\ data.SiteName = IF fr THEN "Site FR" ELSE "Site"
                   /\ page.Lang = req[n].sent[1].url.lang
                        => data.Lang = req[n].sent[1].url.lang

\* The request for /fr was answered with an English page and rendered in
\* English, with the English menu.
C28_Witness ==
    /\ req[1].data # <<>>
    /\ req[1].path = <<"/", "f", "r">>
    /\ req[1].sent[1].url.lang = "fr"
    /\ req[1].fetch[1].page[1].Lang = "en"
    /\ req[1].data[1].Lang = "en"
    /\ req[1].data[1].Menu = Menus["en"]
    /\ req[1].status = StatusOK

\* ------------------------------------------------------------------------
\* Termination and data-race freedom of NewWordPressClient (SpecStartup)
\* ------------------------------------------------------------------------

\* The results of a language waiting in the channel.
InChannel(lang) == {i \in 1..Len(results) : results[i].Lang = lang}

Terminated == mainPc \in {"returned", "fatal"}

\* C29: every execution of NewWordPressClient comes to an end, by return or
\* by log.Fatalf.  On the way a goroutine that is about to send finds room
\* in the channel, a goroutine sends one result (it is done after its send
\* and stays done), and the constructor has received two results, both
\* goroutines done and the channel empty, when it returns.
C29_ConstructorTerminates ==
    /\ <>Terminated
    /\ [](\A lang \in Languages :
            /\ wpc[lang] = "sending" => Len(results) < Len(languages)
            /\ Cardinality(InChannel(lang)) <= 1
            /\ InChannel(lang) # {} => wpc[lang] = "done")
    /\ [][\A lang \in Languages :
            /\ wpc[lang] = "done" => wpc'[lang] = "done"
            /\ Cardinality(InChannel(lang))' > Cardinality(InChannel(lang))
                  => wpc[lang] = "sending" /\ wpc'[lang] = "done"]_vars
    /\ [](mainPc = "returned"
            => /\ received = Len(languages)
               /\ results = <<>>
               /\ \A lang \in Languages : wpc[lang] = "done")

\* The constructor has returned after two receptions, with both results
\* sent and none left in the channel.
C29_Witness ==
    /\ mainPc = "returned"
    /\ received = 2
    /\ results = <<>>
    /\ wpc = [lang \in Languages |-> "done"]
    /\ DOMAIN Menus = {"en", "fr"}

\* A step of the goroutine of a language.
WorkerStep(lang) == wpc[lang] # "none" /\ wpc'[lang] # wpc[lang]

\* The keys of Menus a step writes.
KeysWritten == {k \in DOMAIN Menus' : k \notin DOMAIN Menus \/ Menus'[k] # Menus[k]}

\* C30: during NewWordPressClient the Menus map and the MenuData it points
\* to are touched by the receive loop only.  A step that writes them is one
\* iteration of that loop, in which no goroutine moves, and writes one key;
\* a step of a goroutine leaves them alone, and what it sends upstream,
\* gets from FetchMenu and puts into the channel is given by its language,
\* the client's fixed fields and upstream's answer, not by Menus.
C30_MenusTouchedByReceiveLoopOnly ==
    [][/\ (Menus' # Menus \/ heap' # heap)
            => /\ mainPc = "recv"
               /\ results # <<>> /\ results' = Tail(results)
               /\ received' = received + 1
               /\ \A lang \in Languages : ~WorkerStep(lang)
               /\ wsent' = wsent /\ wres' = wres
               /\ Cardinality(KeysWritten) = 1
               /\ DOMAIN Menus \subseteq DOMAIN Menus'
       /\ \A lang \in Languages :
            WorkerStep(lang)
                => /\ Menus' = Menus /\ heap' = heap
                   /\ wsent'[lang] \in {wsent[lang],
                                        Append(wsent[lang], FetchMenuRequest(BaseURL, lang))}
                   /\ wres'[lang] \in {wres[lang],
                                       <<FetchMenuResult(upMenu[FetchMenuId(lang)])>>}
                   /\ \/ results' = results
                      \/ /\ wres[lang] # <<>>
                         /\ results' = Append(results,
                                              [Lang      |-> lang,
                                               MenuItems |-> wres[lang][1].items,
                                               Err       |-> wres[lang][1].err])]_vars

\* The receive loop has stored the first menu while the goroutine of the
\* other language is still waiting for upstream.
C30_Witness ==
    /\ mainPc = "recv"
    /\ received = 1
    /\ DOMAIN Menus = {"fr"}
    /\ wpc["en"] = "waiting"
    /\ wpc["fr"] = "done"

====
